---- MODULE Spec2Model ----
(***************************************************************************)
(* Verification model of the QR code generation pipeline.                  *)
(*                                                                         *)
(*   Part I   the batch coordinator QRGeneratorGov.generate_qr_codes_-     *)
(*            parallel with its pool of worker processes running           *)
(*            process_qr_batch (src/qr_generator_gov.py).                  *)
(*   Part II  the payload encoders QRCodeData (src/qr_generator_gov.py)    *)
(*            and QRGenerationService.generate_secure_qr_data with the     *)
(*            Celery batch task and the verification endpoint              *)
(*            (src/exemples_code_implementation.py).                       *)
(*   Part III the tiered store QRStorageManager with its catalog tables    *)
(*            qr_metadata and storage_shards (src/storage_strategy.py).    *)
(***************************************************************************)
EXTENDS Integers, Sequences, FiniteSets, TLC

(***************************************************************************)
(* Bounds of the model.                                                    *)
(***************************************************************************)
\* longest request list handed to the coordinator
MaxN == 4
\* largest configured QRConfig.BATCH_SIZE (1000 in the source, scaled down)
MaxBatchSize == 3
\* largest num_workers argument
MaxWorkers == 2
\* largest reading of time.time() - start_time, in clock ticks
MaxElapsed == 1
\* QRCodeData objects and service payloads created in one run
MaxEncoded == 2
\* last reading of the wall clock, in ticks
MaxClock == 2
\* clock ticks per calendar day
TicksPerDay == 2
\* largest sequence number handed to generate_secure_qr_data directly
MaxSeq == 2
\* calls of the endpoint trigger_qr_generation in one run
MaxTasks == 3
\* largest hot_storage_days and warm_storage_days of a StorageConfig
MaxHotDays == 1
MaxWarmDays == 2
\* largest shards_per_day of a StorageConfig
MaxShardsPerDay == 1
\* bytes in a GiB (1024 * 1024 * 1024 in the source, scaled down)
BytesPerGiB == 1
\* invocations of generate_qr_codes_parallel on one instance, and their requests
MaxCalls == 2
MaxCallN == 2
\* QRConfig.CACHE_TTL (3600 s in the source) and the last reading of the clock,
\* in units of time.time() scaled down
CACHE_TTL == 2
MaxCacheTime == 3
\* images and processes of a run of PP_Queue.py
MaxImages == 4
MaxProcesses == 3
\* calls of store_qr_file in one run
MaxStores == 2
\* bytes in a KiB (1024 in the source, scaled down)
BytesPerKiB == 1
\* LIMIT 20 of the query for the recent shards
RecentShardsLimit == 20
\* oldest creation time handed to store_qr_file, in days before the call
MaxAgeDays == 2
\* reads of one artifact in one run
MaxReads == 1

VARIABLES
    \* ---- Part I: coordinator -------------------------------------------
    BATCH_SIZE,      \* QRConfig.BATCH_SIZE
    pc,              \* position of the coordinator in generate_qr_codes_parallel
    num_workers,     \* max_workers of the ProcessPoolExecutor
    qr_data_list,    \* the argument: a list of requests (their ids)
    batches,         \* the local list of slices
    futures,         \* futures[k]: state of the future of batches[k]
    results,         \* results[k]: the results dict of process_qr_batch, worker side
    hung,            \* batches whose worker blocks for ever
    batch_results,   \* the coordinator's local list
    stats,           \* self.stats
    report,          \* the returned report, or NoReport
    qr_codes,        \* rows of table qr_codes (their primary keys)
    files,           \* files present in OUTPUT_DIR (by request id)
    calls_left,      \* calls of generate_qr_codes_parallel the caller still makes
    \* ---- Part II: encoders ---------------------------------------------
    now,             \* the wall clock (datetime.now()), in ticks
    codes,           \* the QRCodeData objects constructed so far
    emitted,         \* what generate_secure_qr_data returned so far, with its arguments
    last_verification, \* request and response of the last call of verify_qr_code
    tasks,           \* the Celery tasks generate_qr_batch, in the order of their dispatch
    \* ---- Part III: tiered store ----------------------------------------
    config,          \* the StorageConfig of the QRStorageManager
    qr_metadata,     \* table qr_metadata as committed: qr_id -> row
    storage_shards,  \* table storage_shards as committed: shard_id -> row
    txn_shards,      \* storage_shards as seen inside the open write transaction
    db_lock,         \* the connection holding SQLite's write lock, or NoWriter
    disk,            \* the files under storage/: path -> bytes
    writers,         \* writers[w]: position and locals of w in store_qr_file
    mig,             \* position and locals of migrate_old_files
    retrieved,       \* what the last call of retrieve_qr_file returned
    returned,        \* the dicts store_qr_file returned, in the order of return
    store_raised,    \* the exception the last failed call of store_qr_file raised
    storage_statistics, \* what the last call of get_storage_statistics returned or raised
    \* ---- Part IV: functions and objects used on their own ---------------
    shard_hour_call, \* the last call of _generate_shard_id on a day of 24 hours
    \* PP_Queue.py
    pq_pc,           \* position of the parent in traiter_images_par_queue
    liste_chemins_images, \* the argument: the paths of the images
    num_processes,   \* the argument
    lots,            \* the local list of slices
    processes,       \* processes[k]: state of the process of lots[k] and its loop index
    joined,          \* the processes the parent has joined
    queue,           \* the multiprocessing.Queue: the paths put and not yet got
    img_convert,     \* the files in the directory img_convert
    chemins_images_traites, \* the list the parent builds and returns
    \* CacheManager
    cache,           \* self.cache: key -> value
    ttl,             \* self.ttl: key -> the time.time() of its set
    time_time,       \* the reading of time.time()
    cache_sets,      \* the calls of set so far: key -> value and time of the last one
    cache_got        \* key and result of the last call of get

coordVars == <<BATCH_SIZE, pc, num_workers, qr_data_list, batches, futures,
               results, hung, batch_results, stats, report, qr_codes, files, calls_left>>

encVars == <<now, codes, emitted, last_verification, tasks>>

storVars == <<config, qr_metadata, storage_shards, txn_shards, db_lock, disk,
              writers, mig, retrieved, returned, store_raised, storage_statistics>>

queueVars == <<pq_pc, liste_chemins_images, num_processes, lots, processes, joined,
               queue, img_convert, chemins_images_traites>>

cacheVars == <<cache, ttl, time_time, cache_sets, cache_got>>

auxVars == <<shard_hour_call, queueVars, cacheVars>>

vars == <<coordVars, encVars, storVars, auxVars>>

(***************************************************************************)
(* Helpers                                                                 *)
(***************************************************************************)
Min(a, b) == IF a < b THEN a ELSE b

RECURSIVE SumSeq(_, _)
\* sum of field f over a sequence of records
SumSeq(s, f) == IF s = <<>> THEN 0 ELSE Head(s)[f] + SumSeq(Tail(s), f)

RECURSIVE Flatten(_)
Flatten(ss) == IF ss = <<>> THEN <<>> ELSE Head(ss) \o Flatten(Tail(ss))

SeqRange(s) == {s[k] : k \in DOMAIN s}

\* Python's range(start, stop, step) for step > 0, as a sequence
RECURSIVE range(_, _, _)
range(start, stop, step) ==
    IF start >= stop THEN <<>> ELSE <<start>> \o range(start + step, stop, step)

\* Python's lst[i:j] for 0 <= i <= j (0-based, j excluded, clipped to the length)
Slice(lst, i, j) == SubSeq(lst, i + 1, Min(j, Len(lst)))

\* generate_test_data(count): count requests, request k identified by k
generate_test_data(count) == [k \in 1..count |-> k]

\* size in bytes of the image file rendered for request q
FileSize(q) == 1 + (q % 2)

(***************************************************************************)
(* Part I: the coordinator                                                 *)
(***************************************************************************)
NoReport == [returned |-> FALSE]

\* (mutant) the slices stop one element early
Batches_short(lst, B) ==
    LET starts == range(0, Len(lst), B)
    IN  [k \in 1..Len(starts) |-> Slice(lst, starts[k], starts[k] + B - 1)]

\* the list comprehension of generate_qr_codes_parallel
Batches(lst, B) ==
    LET starts == range(0, Len(lst), B)
    IN  [k \in 1..Len(starts) |-> Slice(lst, starts[k], starts[k] + B)]

NewResults == [idx |-> 0, success_count |-> 0, error_count |-> 0, total_size |-> 0]

InitStats == [total_generated |-> 0, total_errors |-> 0, total_size |-> 0,
              batches_processed |-> 0, total_time |-> 0]

CoordInit ==
    /\ BATCH_SIZE \in 1..MaxBatchSize
    /\ pc = "idle"
    /\ num_workers = 0
    /\ qr_data_list = <<>>
    /\ batches = <<>>
    /\ futures = <<>>
    /\ results = <<>>
    /\ hung = {}
    /\ batch_results = <<>>
    /\ stats = InitStats
    /\ report = NoReport
    /\ qr_codes = {}
    /\ files = {}
    /\ calls_left = 1

\* entry of generate_qr_codes_parallel up to the creation of the executor
generate_qr_codes_parallel(n, w) ==
    /\ pc \in {"idle", "returned", "raised"}
    /\ calls_left > 0
    /\ calls_left' = calls_left - 1
    /\ num_workers' = w
    /\ qr_data_list' = generate_test_data(n)
    /\ batches' = Batches(generate_test_data(n), BATCH_SIZE)
    /\ futures' = <<>>
    /\ results' = <<>>
    /\ batch_results' = <<>>
    /\ report' = NoReport
    /\ pc' = "submit"
    /\ UNCHANGED <<auxVars, storVars, encVars, BATCH_SIZE, hung, stats, qr_codes, files>>

\* one turn of the loop "for batch in batches: executor.submit(...)"
executor_submit ==
    /\ pc = "submit"
    /\ IF Len(futures) < Len(batches)
       THEN /\ futures' = Append(futures, "pending")
            /\ results' = Append(results, NewResults)
            /\ pc' = pc
       ELSE /\ pc' = "collect"
            /\ UNCHANGED <<futures, results>>
    /\ UNCHANGED <<auxVars, storVars, encVars, BATCH_SIZE, num_workers, qr_data_list, batches, hung,
                   batch_results, stats, report, qr_codes, files, calls_left>>

Running == {k \in DOMAIN futures : futures[k] = "running"}
Pending == {k \in DOMAIN futures : futures[k] = "pending"}

\* a free worker process takes the oldest pending work item
worker_start(b) ==
    /\ b \in Pending
    /\ \A k \in Pending : b <= k
    /\ Cardinality(Running) < num_workers
    /\ futures' = [futures EXCEPT ![b] = "running"]
    /\ UNCHANGED <<auxVars, storVars, encVars, BATCH_SIZE, pc, num_workers, qr_data_list, batches, results, hung,
                   batch_results, stats, report, qr_codes, files, calls_left>>

\* Outcomes of one turn of the loop of process_qr_batch on request q:
\*   "ok"          generate_single_qr returned True and save_qr_record inserted
\*   "render_fail" generate_single_qr caught an exception and returned False
\*   "db_fail"     generate_single_qr returned True and save_qr_record raised
Outcomes(q) ==
    {"render_fail", "db_fail"} \cup (IF q \in qr_codes THEN {} ELSE {"ok"})

\* the loop taking the items from the last to the first, a mutation of line 209
loop_item_reversed(batch_data, idx) == batch_data[Len(batch_data) - idx]

\* "for qr_data in batch_data": the item of the turn after idx turns
loop_item(batch_data, idx) == batch_data[idx + 1]

\* one turn of the loop of process_qr_batch in the worker of batch b; the
\* last turn returns the results dict
process_qr_batch(b, outcome) ==
    /\ b \in Running
    /\ b \notin hung
    /\ LET r == results[b]
           q == loop_item(batches[b], r.idx)
           last == r.idx + 1 = Len(batches[b])
       IN  /\ outcome \in Outcomes(q)
           /\ CASE outcome = "ok" ->
                    /\ files' = files \cup {q}
                    /\ qr_codes' = qr_codes \cup {q}
                    /\ results' = [results EXCEPT ![b] =
                          [idx |-> r.idx + 1,
                           success_count |-> r.success_count + 1,
                           error_count |-> r.error_count,
                           total_size |-> r.total_size + FileSize(q)]]
                    /\ futures' = [futures EXCEPT ![b] = IF last THEN "done" ELSE "running"]
                [] outcome = "render_fail" ->
                    /\ results' = [results EXCEPT ![b] =
                          [r EXCEPT !.idx = r.idx + 1, !.error_count = r.error_count + 1]]
                    /\ futures' = [futures EXCEPT ![b] = IF last THEN "done" ELSE "running"]
                    /\ UNCHANGED <<files, qr_codes>>
                [] outcome = "db_fail" ->
                    \* the exception of save_qr_record leaves process_qr_batch
                    /\ files' = files \cup {q}
                    /\ futures' = [futures EXCEPT ![b] = "failed"]
                    /\ UNCHANGED <<results, qr_codes>>
    /\ UNCHANGED <<auxVars, storVars, encVars, BATCH_SIZE, pc, num_workers, qr_data_list, batches, hung,
                   batch_results, stats, report, calls_left>>

\* the worker of batch b blocks for ever (in its file or database I/O)
batch_hang(b) ==
    /\ b \in Running
    /\ b \notin hung
    /\ hung' = hung \cup {b}
    /\ UNCHANGED <<auxVars, storVars, encVars, BATCH_SIZE, pc, num_workers, qr_data_list, batches, futures, results,
                   batch_results, stats, report, qr_codes, files, calls_left>>

\* a failed batch booked as generated, a mutation of lines 304-307
FailedBatchAsSuccess == [success_count |-> BATCH_SIZE, error_count |-> 0, total_size |-> 0]

\* the dict literal of the except branch (it carries no batch_id)
FailedBatch == [success_count |-> 0, error_count |-> BATCH_SIZE, total_size |-> 0]

\* one turn of the collecting loop: future.result(timeout=300) returns
future_result ==
    /\ pc = "collect"
    /\ LET i == Len(batch_results) + 1
       IN  /\ i <= Len(futures)
           /\ futures[i] = "done"
           /\ batch_results' = Append(batch_results,
                 [success_count |-> results[i].success_count,
                  error_count |-> results[i].error_count,
                  total_size |-> results[i].total_size,
                  batch_id |-> i])
           /\ stats' = [stats EXCEPT !.batches_processed = @ + 1]
    /\ UNCHANGED <<auxVars, storVars, encVars, BATCH_SIZE, pc, num_workers, qr_data_list, batches, futures, results,
                   hung, report, qr_codes, files, calls_left>>

\* one turn of the collecting loop: future.result(timeout=300) raises, either
\* the exception of the worker or TimeoutError for a future that is not done
future_exception ==
    /\ pc = "collect"
    /\ LET i == Len(batch_results) + 1
       IN  /\ i <= Len(futures)
           /\ futures[i] \in {"failed", "pending", "running"}
           /\ batch_results' = Append(batch_results, FailedBatch)
    /\ UNCHANGED <<auxVars, storVars, encVars, BATCH_SIZE, pc, num_workers, qr_data_list, batches, futures, results,
                   hung, stats, report, qr_codes, files, calls_left>>

\* leaving the with block: ProcessPoolExecutor.__exit__ is shutdown(wait=True),
\* which returns once every submitted work item has run to its end
executor_shutdown ==
    /\ pc = "collect"
    /\ Len(batch_results) = Len(futures)
    /\ \A k \in DOMAIN futures : futures[k] \in {"done", "failed"}
    /\ pc' = "stats"
    /\ UNCHANGED <<auxVars, storVars, encVars, BATCH_SIZE, num_workers, qr_data_list, batches, futures, results, hung,
                   batch_results, stats, report, qr_codes, files, calls_left>>

\* _calculate_final_stats; elapsed is the reading time.time() - start_time
calculate_final_stats(elapsed) ==
    /\ pc = "stats"
    /\ stats' = [stats EXCEPT
           !.total_generated = @ + SumSeq(batch_results, "success_count"),
           !.total_errors = @ + SumSeq(batch_results, "error_count"),
           !.total_size = @ + SumSeq(batch_results, "total_size"),
           !.total_time = elapsed]
    \* total_generated / total_time raises ZeroDivisionError when total_time = 0
    /\ pc' = IF elapsed = 0 THEN "raised" ELSE "report"
    /\ UNCHANGED <<auxVars, storVars, encVars, BATCH_SIZE, num_workers, qr_data_list, batches, futures, results, hung,
                   batch_results, report, qr_codes, files, calls_left>>

\* get_performance_report, and the return of generate_qr_codes_parallel
get_performance_report ==
    /\ pc = "report"
    /\ report' = [returned |-> TRUE,
                  total_qr_requested |-> stats.total_generated + stats.total_errors,
                  successful_generated |-> stats.total_generated,
                  errors |-> stats.total_errors,
                  total_size |-> stats.total_size,
                  batches_processed |-> stats.batches_processed]
    /\ pc' = "returned"
    /\ UNCHANGED <<auxVars, storVars, encVars, BATCH_SIZE, num_workers, qr_data_list, batches, futures, results, hung,
                   batch_results, stats, qr_codes, files, calls_left>>

\* a caller that uses one generator instance for MaxCalls invocations
CallsCoordInit ==
    /\ BATCH_SIZE = 1
    /\ pc = "idle"
    /\ num_workers = 0
    /\ qr_data_list = <<>>
    /\ batches = <<>>
    /\ futures = <<>>
    /\ results = <<>>
    /\ hung = {}
    /\ batch_results = <<>>
    /\ stats = InitStats
    /\ report = NoReport
    /\ qr_codes = {}
    /\ files = {}
    /\ calls_left = MaxCalls

CallsStep ==
    \/ \E n \in 1..MaxCallN : generate_qr_codes_parallel(n, 1)
    \/ executor_submit
    \/ \E b \in DOMAIN futures : worker_start(b)
    \/ \E b \in DOMAIN futures, o \in {"ok", "render_fail", "db_fail"} : process_qr_batch(b, o)
    \/ future_result
    \/ future_exception
    \/ executor_shutdown
    \/ \E t \in 0..MaxElapsed : calculate_final_stats(t)
    \/ get_performance_report

CoordStep ==
    \/ \E n \in 0..MaxN, w \in 1..MaxWorkers : generate_qr_codes_parallel(n, w)
    \/ executor_submit
    \/ \E b \in DOMAIN futures : worker_start(b)
    \/ \E b \in DOMAIN futures, o \in {"ok", "render_fail", "db_fail"} : process_qr_batch(b, o)
    \/ \E b \in DOMAIN futures : batch_hang(b)
    \/ future_result
    \/ future_exception
    \/ executor_shutdown
    \/ \E t \in 0..MaxElapsed : calculate_final_stats(t)
    \/ get_performance_report

(***************************************************************************)
(* Part II: the payload encoders                                           *)
(*                                                                         *)
(* Strings are modelled by the tuple of their parts.  A dict is the        *)
(* sequence of its <<key, value>> items in insertion order, as Python      *)
(* keeps it.  sha256(...).hexdigest()[:16] is modelled as collision-free:  *)
(* two digests are equal iff the hashed strings are equal.                 *)
(***************************************************************************)
\* Python's None where a string is expected, and where an object is expected
None == "None"
NoneObj == [none |-> TRUE]

\* citizen ids as a caller may pass them; the last one is the empty string
CitizenIds == {"GOV00000001", ""}
DocumentTypes == {"PASSPORT", "ID_CARD"}
ExpiryDates == {"2025-01-01", "2025-02-02"}
UUIDs == {[uuid4 |-> k] : k \in 1..MaxEncoded}

\* rows of the tables orders and certifications
Orders == {[id |-> "ord-1", company_id |-> "comp-1"],
           [id |-> "ord-2", company_id |-> "comp-2"]}
Certifications ==
    {[id |-> "cert-1", product_name |-> <<"c", "a", "f", "e">>, expiry_date |-> 0],
     [id |-> "cert-2", product_name |-> <<"t", "h", "e">>, expiry_date |-> 1]}

\* the calendar day of a clock reading
Date(t) == t \div TicksPerDay

\* strftime('%Y%m%d') and strptime(..., '%Y%m%d')
strftime_Ymd(day) == [Ymd |-> day]
strptime_Ymd(str) == str.Ymd

RECURSIVE Digits(_)
\* the decimal digits of n >= 0, most significant first
Digits(n) == IF n < 10 THEN <<n>> ELSE Digits(n \div 10) \o <<n % 10>>

\* the format spec 08d for n >= 0: zero-padded to at least 8 digits
Format08d(n) ==
    LET d == Digits(n)
    IN  IF Len(d) >= 8 THEN d ELSE [k \in 1..(8 - Len(d)) |-> 0] \o d

\* the format spec 02d for n >= 0: zero-padded to at least 2 digits
Format02d(n) ==
    LET d == Digits(n)
    IN  IF Len(d) >= 2 THEN d ELSE [k \in 1..(2 - Len(d)) |-> 0] \o d

sha256_hexdigest_16(str) == [sha256_16 |-> str]

\* ---- dicts and JSON ------------------------------------------------------
Keys(d) == {d[k][1] : k \in DOMAIN d}
Get(d, key) == IF key \in Keys(d)
               THEN CHOOSE k \in DOMAIN d : d[k][1] = key
               ELSE 0
Lookup(d, key) == IF key \in Keys(d) THEN d[Get(d, key)][2] ELSE None
\* d[key] = value
SetItem(d, key, value) ==
    IF key \in Keys(d) THEN [d EXCEPT ![Get(d, key)] = <<key, value>>]
    ELSE Append(d, <<key, value>>)
\* del d[key]
DelItem(d, key) == SelectSeq(d, LAMBDA item : item[1] # key)

\* the keys used by the payloads, in the order sort_keys=True puts them
KeyOrder == <<"cert", "citizen_id", "comp", "exp", "gov", "hash", "id", "prod",
              "seq", "ts", "type", "v">>
SortedItems(d) ==
    LET ks == SelectSeq(KeyOrder, LAMBDA key : key \in Keys(d))
    IN  [k \in 1..Len(ks) |-> <<ks[k], Lookup(d, ks[k])>>]

\* json.dumps(d, sort_keys=..., separators=...) and json.loads
json_dumps(d, sort_keys, separators) ==
    [separators |-> separators, items |-> IF sort_keys THEN SortedItems(d) ELSE d]
json_loads(str) == str.items
DefaultSeparators == <<", ", ": ">>
CompactSeparators == <<",", ":">>

\* ---- QRCodeData (src/qr_generator_gov.py) ---------------------------------
\* (mutant) the random id is hashed too
generate_security_hash_with_id(c) ==
    sha256_hexdigest_16(<<c.id, ":", c.citizen_id, ":", c.document_type, ":",
                          c.expiry_date, ":", c.created_at>>)

\* _generate_security_hash of object c
generate_security_hash(c) ==
    sha256_hexdigest_16(<<c.citizen_id, ":", c.document_type, ":", c.expiry_date,
                          ":", c.created_at>>)

\* to_qr_data of object c
to_qr_data(c) ==
    json_dumps(<< <<"id", c.id>>, <<"citizen_id", c.citizen_id>>,
                  <<"type", c.document_type>>, <<"exp", c.expiry_date>>,
                  <<"hash", c.security_hash>>, <<"ts", c.created_at>> >>,
               FALSE, CompactSeparators)

Encoded == Cardinality(codes) + Cardinality(emitted)

\* QRCodeData.__init__; uuid4 draws an id no other object has
QRCodeData_init(u, citizen_id, document_type, expiry_date, security_hash) ==
    /\ Encoded < MaxEncoded
    /\ u \in UUIDs \ {c.id : c \in codes}
    /\ LET c0 == [id |-> u, citizen_id |-> citizen_id, document_type |-> document_type,
                  expiry_date |-> expiry_date, created_at |-> now]
       IN  codes' = codes \cup
              {[id |-> c0.id, citizen_id |-> c0.citizen_id,
                document_type |-> c0.document_type, expiry_date |-> c0.expiry_date,
                created_at |-> c0.created_at,
                security_hash |-> IF security_hash # NoneObj THEN security_hash
                                  ELSE generate_security_hash(c0)]}
    /\ UNCHANGED <<auxVars, storVars, coordVars, now, emitted, last_verification, tasks>>

\* ---- QRGenerationService (src/exemples_code_implementation.py) -------------
\* the f-string gov-cg-{datetime.now().strftime('%Y%m%d')}-{sequence:08d}
format_qr_id(sequence, t) ==
    <<"gov-cg-", strftime_Ymd(Date(t)), "-", Format08d(sequence)>>

\* generate_secure_qr_data(order, certification, sequence) called at clock t:
\* the returned dict, or the exception it raises
generate_secure_qr_data(order, certification, sequence, t) ==
    LET qr_id == format_qr_id(sequence, t)
    IN  IF certification = NoneObj \/ order = NoneObj
        THEN [raised |-> "AttributeError", qr_id |-> qr_id]
        ELSE
        LET qr_data == << <<"gov", "cg">>, <<"id", qr_id>>,
                          <<"cert", certification.id>>,
                          <<"prod", Slice(certification.product_name, 0, 20)>>,
                          <<"comp", order.company_id>>,
                          <<"exp", strftime_Ymd(certification.expiry_date)>>,
                          <<"seq", sequence>>, <<"v", "1.0">> >>
            data_string == json_dumps(qr_data, TRUE, DefaultSeparators)
            security_hash == sha256_hexdigest_16(
                <<data_string, ":", order.id, ":", "CONGO_SECRET_KEY">>)
        IN  [raised |-> None,
             qr_id |-> qr_id,
             qr_data |-> json_dumps(SetItem(qr_data, "hash", security_hash),
                                    FALSE, CompactSeparators),
             security_hash |-> security_hash]

\* a call of generate_secure_qr_data with rows of the database
encode(order, certification, sequence) ==
    /\ Encoded < MaxEncoded
    /\ emitted' = emitted \cup
          {[order |-> order, certification |-> certification, sequence |-> sequence,
            at |-> now,
            out |-> generate_secure_qr_data(order, certification, sequence, now)]}
    /\ UNCHANGED <<auxVars, storVars, coordVars, now, codes, last_verification, tasks>>

NoVerification == [qr_data |-> NoneObj, response |-> None]

\* the body of verify_qr_code on the scanned text str at clock t: its response
verify_response(str, t) ==
    LET qr_data == json_loads(str)
    IN  IF Lookup(qr_data, "gov") # "cg" THEN "HTTP 500 Verification error"
        ELSE IF "hash" \notin Keys(qr_data) THEN "HTTP 500 Verification error"
        ELSE
        LET stored_hash == Lookup(qr_data, "hash")
            temp_data == DelItem(qr_data, "hash")
            data_string == json_dumps(temp_data, TRUE, DefaultSeparators)
            calculated_hash == sha256_hexdigest_16(
                <<data_string, ":", "ORDER_ID", ":", "CONGO_SECRET_KEY">>)
        IN  IF stored_hash # calculated_hash THEN "security_hash_invalid"
            ELSE IF strptime_Ymd(Lookup(qr_data, "exp")) < Date(t) THEN "expired"
            ELSE "valid"

\* POST /verify with the payload of an emitted code
verify_qr_code(str) ==
    /\ last_verification' = [qr_data |-> str, response |-> verify_response(str, now)]
    /\ UNCHANGED <<auxVars, storVars, coordVars, now, codes, emitted, tasks>>

\* ---- the Celery task and its trigger --------------------------------------
\* POST /orders/{order_id}/generate: generate_qr_batch.delay(...)
trigger_qr_generation(order_id) ==
    /\ Len(tasks) < MaxTasks
    /\ tasks' = Append(tasks,
          [order_id |-> order_id, start_sequence |-> 1, batch_size |-> 10000,
           state |-> "PENDING", current |-> 0, qr_ids |-> {}])
    /\ UNCHANGED <<auxVars, storVars, coordVars, now, codes, emitted, last_verification>>

\* one turn of the loop of generate_qr_batch in task k; qr_ids collects the ids
\* the encoder computed, generated counts the appended codes
generate_qr_batch(k) ==
    /\ k \in DOMAIN tasks
    /\ tasks[k].state \in {"PENDING", "PROGRESS"}
    /\ LET task == tasks[k]
           i == task.current
           sequence == task.start_sequence + i
           qr_info == generate_secure_qr_data(NoneObj, NoneObj, sequence, now)
       IN  IF qr_info.raised # None
           THEN tasks' = [tasks EXCEPT ![k] =
                    [task EXCEPT !.state = "FAILURE",
                                 !.qr_ids = task.qr_ids \cup {qr_info.qr_id}]]
           ELSE tasks' = [tasks EXCEPT ![k] =
                    [task EXCEPT !.state = IF i + 1 = task.batch_size
                                           THEN "SUCCESS" ELSE "PROGRESS",
                                 !.current = i + 1,
                                 !.qr_ids = task.qr_ids \cup {qr_info.qr_id}]]
    /\ UNCHANGED <<auxVars, storVars, coordVars, now, codes, emitted, last_verification>>

\* time passes
tick ==
    /\ now < MaxClock
    /\ now' = now + 1
    /\ UNCHANGED <<auxVars, storVars, coordVars, codes, emitted, last_verification, tasks>>

EncInit ==
    /\ now = 0
    /\ codes = {}
    /\ emitted = {}
    /\ last_verification = NoVerification
    /\ tasks = <<>>

EncStep ==
    \/ \E u \in UUIDs, c \in CitizenIds, d \in DocumentTypes, e \in ExpiryDates :
          QRCodeData_init(u, c, d, e, NoneObj)
    \/ \E o \in Orders, c \in Certifications, s \in 1..MaxSeq : encode(o, c, s)
    \/ \E e \in emitted : verify_qr_code(e.out.qr_data)
    \/ tick

TaskStep ==
    \/ \E o \in Orders : trigger_qr_generation(o.id)
    \/ \E k \in DOMAIN tasks : generate_qr_batch(k)
    \/ tick

(***************************************************************************)
(* Part III: the tiered store                                              *)
(*                                                                         *)
(* A datetime is a clock reading in ticks; a tick is one hour of a day of  *)
(* TicksPerDay hours.  A table is the function from its primary key to     *)
(* its row.  Every method of QRStorageManager opens its own connection;    *)
(* SQLite lets one connection write at a time: the first INSERT or UPDATE  *)
(* of a connection takes the write lock, commit releases it, and what a    *)
(* transaction wrote is seen by the others from its commit on.  A          *)
(* connection that finds the lock taken waits for it.                      *)
(* md5(...).hexdigest() is modelled as collision-free.                     *)
(***************************************************************************)
\* StorageConfig; the windows are in days, the shard limit in GiB
Configs ==
    [hot_storage_days : 0..MaxHotDays,
     warm_storage_days : 1..MaxWarmDays,
     primary_datacenter : {"dc1"},
     backup_datacenters : {<<"dc2", "dc3">>},
     compression_level : {"MEDIUM"},
     shards_per_day : 1..MaxShardsPerDay,
     shard_size_limit_gb : {1}]

\* StorageConfig() with the windows and the shard count scaled to the clock
DefaultConfig ==
    [hot_storage_days |-> 1, warm_storage_days |-> 2, primary_datacenter |-> "dc1",
     backup_datacenters |-> <<"dc2", "dc3">>, compression_level |-> "MEDIUM",
     shards_per_day |-> 1, shard_size_limit_gb |-> 1]

QrIds == {"qr-1", "qr-2"}
\* the source files a caller hands over, by their content
SourceFiles == {"A", "B"}
Writers == {"w1", "w2"}
NoWriter == "NoWriter"

\* f with key k set to v
Put(f, k, v) == [x \in DOMAIN f \cup {k} |-> IF x = k THEN v ELSE f[x]]

\* the clock hour of a datetime
Hour(t) == t % TicksPerDay

\* (datetime.now() - created_at).days
AgeDays(created_at, t) == (t - created_at) \div TicksPerDay

\* the if/elif/else of _determine_storage_tier
tier_of_age(age_days, cfg) ==
    IF age_days <= cfg.hot_storage_days THEN "hot"
    ELSE IF age_days <= cfg.warm_storage_days THEN "warm"
    ELSE "cold"

determine_storage_tier(created_at, t, cfg) == tier_of_age(AgeDays(created_at, t), cfg)

\* one shard per clock hour whatever shards_per_day, a mutation of line 145
generate_shard_id_hourly(created_at, storage_type, cfg) ==
    <<storage_type, "_", strftime_Ymd(Date(created_at)), "_", Format02d(Hour(created_at))>>

\* hour // (24 // shards_per_day), on a day of hours_per_day hours
shard_hour_of(hour, shards_per_day, hours_per_day) ==
    hour \div (hours_per_day \div shards_per_day)

generate_shard_id(created_at, storage_type, cfg) ==
    LET date_str == strftime_Ymd(Date(created_at))
        hour == Hour(created_at)
        shard_hour == shard_hour_of(hour, cfg.shards_per_day, TicksPerDay)
    IN  <<storage_type, "_", date_str, "_", Format02d(shard_hour)>>

\* os.path.getsize of a file with these bytes
getsize(bytes) == IF bytes.image = "A" THEN 1 ELSE 2

\* _copy_and_optimize_file: the bytes it leaves at dest
copy_and_optimize_file(source, cfg) ==
    IF cfg.compression_level = "NONE"
    THEN [image |-> source, compress_level |-> None]
    ELSE [image |-> source,
          compress_level |-> CASE cfg.compression_level = "LOW" -> 95 \div 10
                               [] cfg.compression_level = "MEDIUM" -> 85 \div 10
                               [] cfg.compression_level = "HIGH" -> 75 \div 10
                               [] OTHER -> 85 \div 10]

md5_hexdigest(bytes) == [md5 |-> bytes]

\* json.dumps of a list of strings
json_dumps_list(l) == [json_array |-> l]

\* shard_size_limit_gb * 1024 * 1024 * 1024
shard_size_limit_bytes(cfg) == cfg.shard_size_limit_gb * BytesPerGiB

\* a writer outside store_qr_file
IdleWriter == [pc |-> "idle", storage_info |-> NoneObj, age_days |-> 0]

IdleMigrator == [pc |-> "idle", files_to_migrate |-> {}, called |-> {}]

Quiescent == mig.pc = "idle" /\ \A w \in Writers : writers[w].pc = "idle"

\* calls of store_qr_file so far
StoreCalls == Len(returned) + Cardinality({w \in Writers : writers[w].pc # "idle"})

\* store_qr_file up to the copy of the file (lines 164-180)
store_qr_file(w, qr_id, citizen_id, document_type, source, created_at_arg) ==
    /\ writers[w].pc = "idle"
    /\ mig.pc = "idle"
    /\ StoreCalls < MaxStores
    /\ LET created_at == IF created_at_arg = NoneObj THEN now ELSE created_at_arg.datetime
           storage_tier == determine_storage_tier(created_at, now, config)
           shard_id == generate_shard_id(created_at, storage_tier, config)
           dest_dir == <<"storage", storage_tier, strftime_Ymd(Date(created_at)), shard_id>>
           dest_file_path == <<dest_dir, qr_id, ".png">>
           bytes == copy_and_optimize_file(source, config)
       IN  /\ disk' = Put(disk, dest_file_path, bytes)
           /\ writers' = [writers EXCEPT ![w] =
                 [pc |-> "checksum",
                  age_days |-> AgeDays(created_at, now),
                  storage_info |->
                     [qr_id |-> qr_id, citizen_id |-> citizen_id,
                      document_type |-> document_type, created_at |-> created_at,
                      file_path |-> dest_file_path, file_size |-> getsize(bytes),
                      storage_type |-> storage_tier, shard_id |-> shard_id,
                      checksum |-> None, backup_locations |-> <<>>]]]
    /\ UNCHANGED <<auxVars, coordVars, encVars, store_raised, storage_statistics, config, qr_metadata, storage_shards, txn_shards,
                   db_lock, mig, retrieved, returned>>

\* _calculate_checksum reads the file back from dest (line 183)
calculate_checksum(w) ==
    /\ writers[w].pc = "checksum"
    /\ writers' = [writers EXCEPT
          ![w].storage_info.checksum = md5_hexdigest(disk[writers[w].storage_info.file_path]),
          ![w].pc = "save_metadata"]
    /\ UNCHANGED <<auxVars, coordVars, encVars, store_raised, storage_statistics, config, qr_metadata, storage_shards, txn_shards,
                   db_lock, disk, mig, retrieved, returned>>

\* the row with the hash of the path for the checksum, a mutation of line 249
metadata_row_path_checksum(storage_info) ==
    [qr_id |-> storage_info.qr_id, citizen_id |-> storage_info.citizen_id,
     document_type |-> storage_info.document_type, created_at |-> storage_info.created_at,
     file_path |-> storage_info.file_path, file_size |-> storage_info.file_size,
     storage_type |-> storage_info.storage_type, shard_id |-> storage_info.shard_id,
     compression_ratio |-> None, access_count |-> 0, last_accessed |-> None,
     checksum |-> md5_hexdigest(storage_info.file_path),
     backup_locations |-> json_dumps_list(storage_info.backup_locations)]

\* the row INSERT OR REPLACE writes: the columns it does not name take their defaults
metadata_row(storage_info) ==
    [qr_id |-> storage_info.qr_id, citizen_id |-> storage_info.citizen_id,
     document_type |-> storage_info.document_type, created_at |-> storage_info.created_at,
     file_path |-> storage_info.file_path, file_size |-> storage_info.file_size,
     storage_type |-> storage_info.storage_type, shard_id |-> storage_info.shard_id,
     compression_ratio |-> None, access_count |-> 0, last_accessed |-> None,
     checksum |-> storage_info.checksum,
     backup_locations |-> json_dumps_list(storage_info.backup_locations)]

\* _save_metadata: one statement and its commit
save_metadata(w) ==
    /\ writers[w].pc = "save_metadata"
    /\ db_lock = NoWriter
    /\ qr_metadata' = Put(qr_metadata, writers[w].storage_info.qr_id,
                          metadata_row(writers[w].storage_info))
    /\ writers' = [writers EXCEPT ![w].pc = "insert_shard"]
    /\ UNCHANGED <<auxVars, coordVars, encVars, store_raised, storage_statistics, config, storage_shards, txn_shards, db_lock, disk,
                   mig, retrieved, returned>>

\* INSERT OR REPLACE, a mutation of the statement of line 263
insert_or_replace(table, key, row) == Put(table, key, row)

\* INSERT OR IGNORE
insert_or_ignore(table, key, row) == IF key \in DOMAIN table THEN table ELSE Put(table, key, row)

\* _update_shard_stats, first statement (lines 262-266): opens the write transaction
insert_shard(w) ==
    /\ writers[w].pc = "insert_shard"
    /\ db_lock = NoWriter
    /\ db_lock' = w
    /\ txn_shards' = insert_or_ignore(storage_shards, writers[w].storage_info.shard_id,
          [shard_id |-> writers[w].storage_info.shard_id, created_at |-> now,
           storage_type |-> writers[w].storage_info.storage_type,
           current_size_bytes |-> 0, file_count |-> 0, is_sealed |-> FALSE,
           backup_status |-> "pending"])
    /\ writers' = [writers EXCEPT ![w].pc = "update_shard"]
    /\ UNCHANGED <<auxVars, coordVars, encVars, store_raised, storage_statistics, config, qr_metadata, storage_shards, disk, mig,
                   retrieved, returned>>

\* SET current_size_bytes = file_size, a mutation of the statement of line 270
shard_set(row, file_size) ==
    [row EXCEPT !.current_size_bytes = file_size, !.file_count = @ + 1]

\* the UPDATE without file_count = file_count + 1, a mutation of line 271
shard_add_size_only(row, file_size) ==
    [row EXCEPT !.current_size_bytes = @ + file_size]

\* SET current_size_bytes = current_size_bytes + ?, file_count = file_count + 1
shard_add(row, file_size) ==
    [row EXCEPT !.current_size_bytes = @ + file_size, !.file_count = @ + 1]

\* _update_shard_stats, second statement (lines 268-273)
update_shard(w) ==
    /\ writers[w].pc = "update_shard"
    /\ db_lock = w
    /\ txn_shards' = [txn_shards EXCEPT ![writers[w].storage_info.shard_id] =
                         shard_add(@, writers[w].storage_info.file_size)]
    /\ writers' = [writers EXCEPT ![w].pc = "seal_shard"]
    /\ UNCHANGED <<auxVars, coordVars, encVars, store_raised, storage_statistics, config, qr_metadata, storage_shards, db_lock, disk,
                   mig, retrieved, returned>>

\* current_size >= limit, a mutation of the test of line 281
should_seal_at_limit(current_size, cfg) == current_size >= shard_size_limit_bytes(cfg)

\* the test of line 281
should_seal(current_size, cfg) == current_size > shard_size_limit_bytes(cfg)

\* _update_shard_stats, the SELECT and the conditional UPDATE (lines 276-284)
seal_shard(w) ==
    /\ writers[w].pc = "seal_shard"
    /\ db_lock = w
    /\ LET shard_id == writers[w].storage_info.shard_id
           current_size == txn_shards[shard_id].current_size_bytes
       IN  txn_shards' = IF should_seal(current_size, config)
                         THEN [txn_shards EXCEPT ![shard_id].is_sealed = TRUE]
                         ELSE txn_shards
    /\ writers' = [writers EXCEPT ![w].pc = "commit_shard"]
    /\ UNCHANGED <<auxVars, coordVars, encVars, store_raised, storage_statistics, config, qr_metadata, storage_shards, db_lock, disk,
                   mig, retrieved, returned>>

\* _update_shard_stats, conn.commit() (line 286)
commit_shard(w) ==
    /\ writers[w].pc = "commit_shard"
    /\ db_lock = w
    /\ storage_shards' = txn_shards
    /\ db_lock' = NoWriter
    /\ writers' = [writers EXCEPT ![w].pc = "schedule_backup"]
    /\ UNCHANGED <<auxVars, coordVars, encVars, store_raised, storage_statistics, config, qr_metadata, txn_shards, disk, mig,
                   retrieved, returned>>

\* _schedule_backup: the dict it leaves; the catalog is not written
schedule_backup(storage_info, cfg) ==
    [storage_info EXCEPT !.backup_locations =
        [k \in 1..Len(cfg.backup_datacenters) |->
            <<cfg.backup_datacenters[k], ":", storage_info.file_path>>]]

\* store_qr_file, lines 203-206
store_return(w) ==
    /\ writers[w].pc = "schedule_backup"
    /\ LET storage_info == writers[w].storage_info
       IN  returned' = Append(returned,
              IF storage_info.storage_type \in {"hot", "warm"}
              THEN schedule_backup(storage_info, config)
              ELSE storage_info)
    /\ writers' = [writers EXCEPT ![w] = IdleWriter]
    /\ UNCHANGED <<auxVars, coordVars, encVars, store_raised, storage_statistics, config, qr_metadata, storage_shards, txn_shards,
                   db_lock, disk, mig, retrieved>>

\* the UPDATE of retrieve_qr_file counting twice, a mutation of line 314
touch_access_twice(row, t) == [row EXCEPT !.access_count = @ + 2, !.last_accessed = t]

\* the UPDATE of retrieve_qr_file (lines 312-317)
touch_access(row, t) == [row EXCEPT !.access_count = @ + 1, !.last_accessed = t]

retrieve_qr_file(qr_id) ==
    /\ Quiescent
    /\ db_lock = NoWriter
    /\ IF qr_id \in DOMAIN qr_metadata
       THEN /\ qr_metadata[qr_id].access_count < MaxReads
            /\ retrieved' = qr_metadata[qr_id]
            /\ qr_metadata' = [qr_metadata EXCEPT ![qr_id] = touch_access(@, now)]
       ELSE /\ retrieved' = NoneObj
            /\ UNCHANGED qr_metadata
    /\ UNCHANGED <<auxVars, coordVars, encVars, store_raised, storage_statistics, config, storage_shards, txn_shards, db_lock, disk,
                   writers, mig, returned>>

\* the text sqlite3 keeps for a datetime parameter: isoformat(" ")
datetime_isoformat(t) == [isodate |-> strftime_Ymd(Date(t)), isotime |-> Hour(t)]

\* the date part of the text alone, a mutation of line 339
fromisoformat_date(str) == strptime_Ymd(str.isodate) * TicksPerDay

\* datetime.fromisoformat
fromisoformat(str) == strptime_Ymd(str.isodate) * TicksPerDay + str.isotime

\* migrate_old_files up to fetchall (lines 326-336)
migrate_old_files ==
    /\ Quiescent
    /\ mig' = [pc |-> "loop",
               files_to_migrate |->
                  {[qr_id |-> q, created_at_str |-> datetime_isoformat(qr_metadata[q].created_at),
                    storage_type |-> qr_metadata[q].storage_type,
                    file_path |-> qr_metadata[q].file_path] :
                      q \in {x \in DOMAIN qr_metadata : qr_metadata[x].storage_type # "cold"}},
               called |-> {}]
    /\ UNCHANGED <<auxVars, coordVars, encVars, store_raised, storage_statistics, config, qr_metadata, storage_shards, txn_shards,
                   db_lock, disk, writers, retrieved, returned>>

\* the catalog with the record saved before the copy, a mutation of lines 180-199
catalog_at_copy_saved_first(catalog, storage_info) ==
    <<Put(catalog[1], storage_info.qr_id, storage_info), catalog[2]>>

\* a _migrate_file that moves the bytes and leaves the catalog, a mutation of line 352
migrate_file_bytes_only(state, qr_id, old_path, old_tier, new_tier) ==
    <<state[1], state[2],
      [p \in (DOMAIN state[3] \ {old_path}) \cup {<<new_tier, old_path>>} |->
          IF p = old_path \/ p = <<new_tier, old_path>> THEN state[3][old_path]
          ELSE state[3][p]]>>

\* _migrate_file: its body is pass, the catalog and the disk stay as they are
migrate_file(state, qr_id, old_path, old_tier, new_tier) == state

\* one round of the loop of migrate_old_files (lines 338-344)
migrate_old_files_loop(qr_id) ==
    /\ mig.pc = "loop"
    /\ \E r \in mig.files_to_migrate : r.qr_id = qr_id
    /\ LET f == CHOOSE r \in mig.files_to_migrate : r.qr_id = qr_id
           created_at == fromisoformat(f.created_at_str)
           new_storage_tier == determine_storage_tier(created_at, now, config)
           state == migrate_file(<<qr_metadata, storage_shards, disk>>, f.qr_id,
                                 f.file_path, f.storage_type, new_storage_tier)
       IN  /\ mig' = [mig EXCEPT
                 !.files_to_migrate = @ \ {f},
                 !.called = IF new_storage_tier # f.storage_type
                            THEN @ \cup {[qr_id |-> f.qr_id, old_path |-> f.file_path,
                                          old_tier |-> f.storage_type,
                                          new_tier |-> new_storage_tier]}
                            ELSE @]
           /\ IF new_storage_tier # f.storage_type
              THEN /\ qr_metadata' = state[1]
                   /\ storage_shards' = state[2]
                   /\ disk' = state[3]
              ELSE UNCHANGED <<qr_metadata, storage_shards, disk>>
    /\ UNCHANGED <<auxVars, coordVars, encVars, store_raised, storage_statistics, config, txn_shards, db_lock, writers, retrieved,
                   returned>>

\* migrate_old_files, conn.close() (line 346)
migrate_old_files_end ==
    /\ mig.pc = "loop"
    /\ mig.files_to_migrate = {}
    /\ mig' = [mig EXCEPT !.pc = "idle"]
    /\ UNCHANGED <<auxVars, coordVars, encVars, store_raised, storage_statistics, config, qr_metadata, storage_shards, txn_shards,
                   db_lock, disk, writers, retrieved, returned>>

\* QRStorageManager.__init__ on an empty directory: _init_database creates the
\* tables empty
EmptyStore ==
    /\ qr_metadata = <<>>
    /\ storage_shards = <<>>
    /\ txn_shards = <<>>
    /\ db_lock = NoWriter
    /\ disk = <<>>
    /\ writers = [w \in Writers |-> IdleWriter]
    /\ mig = IdleMigrator
    /\ retrieved = NoneObj
    /\ returned = <<>>
    /\ store_raised = NoneObj
    /\ storage_statistics = NoneObj

\* QRStorageManager(StorageConfig())
StorInit == config = DefaultConfig /\ EmptyStore

\* the creation time a caller passes: None, or now less d whole days
CreatedAt(d) == IF d = 0 THEN NoneObj ELSE [datetime |-> now - d * TicksPerDay]

\* ---- get_storage_statistics -------------------------------------------------
RECURSIVE SumFileSizes(_, _)
\* SUM(file_size) over the rows ids of table qr_metadata; no row gives NULL
SumFileSizes(table, ids) ==
    IF ids = {} THEN 0
    ELSE LET x == CHOOSE y \in ids : TRUE
         IN  table[x].file_size + SumFileSizes(table, ids \ {x})

\* round(num / den, 2) in hundredths, ties to the even hundredth
round2(num, den) ==
    LET q == (100 * num) \div den
        rem == (100 * num) % den
    IN  IF 2 * rem > den \/ (2 * rem = den /\ q % 2 = 1) THEN q + 1 ELSE q

\* the rows of storage_shards ORDER BY created_at DESC LIMIT n: every order the
\* query may give them in
recent_shards_query(table, n) ==
    LET len == Min(Cardinality(DOMAIN table), n)
    IN  {sq \in [1..len -> DOMAIN table] :
            /\ \A i, j \in 1..len : i # j => sq[i] # sq[j]
            /\ \A i \in 1..len : \A x \in DOMAIN table \ {sq[k] : k \in 1..len} :
                  table[sq[i]].created_at >= table[x].created_at
            /\ \A i, j \in 1..len : i < j =>
                  table[sq[i]].created_at >= table[sq[j]].created_at}

\* the dict get_storage_statistics builds (lines 396-417) from the three queries
statistics_report(metadata, shards, recent) ==
    LET ids == DOMAIN metadata
        total_files == Cardinality(ids)
        total_size == SumFileSizes(metadata, ids)
        tiers == {metadata[q].storage_type : q \in ids}
        of_tier(t) == {q \in ids : metadata[q].storage_type = t}
    IN  IF ids = {}
        THEN \* SUM and AVG over no row are NULL: None / int at line 399
             [raised |-> "TypeError"]
        ELSE [raised |-> None,
              global |-> [total_files |-> total_files,
                          total_size_gb |-> round2(total_size, BytesPerGiB),
                          avg_file_size_kb |-> round2(total_size, total_files * BytesPerKiB)],
              by_storage_type |->
                  [t \in tiers |->
                      [file_count |-> Cardinality(of_tier(t)),
                       total_size_gb |-> round2(SumFileSizes(metadata, of_tier(t)),
                                                BytesPerGiB)]],
              recent_shards |->
                  [i \in DOMAIN recent |->
                      [shard_id |-> recent[i],
                       storage_type |-> shards[recent[i]].storage_type,
                       file_count |-> shards[recent[i]].file_count,
                       size_gb |-> round2(shards[recent[i]].current_size_bytes, BytesPerGiB),
                       is_sealed |-> shards[recent[i]].is_sealed]]]

get_storage_statistics ==
    /\ Quiescent
    /\ \E recent \in recent_shards_query(storage_shards, RecentShardsLimit) :
          storage_statistics' = statistics_report(qr_metadata, storage_shards, recent)
    /\ UNCHANGED <<auxVars, coordVars, encVars, store_raised, config, qr_metadata, storage_shards,
                   txn_shards, db_lock, disk, writers, mig, retrieved, returned>>

\* ---- a store whose copy fails ----------------------------------------------
\* the catalog when line 180 raises: _save_metadata and _update_shard_stats, at
\* lines 199-200, have not run
catalog_at_copy(catalog, storage_info) == catalog

\* the bytes a failed copy leaves at dest: none if dest could not be opened,
\* a truncated file if the write broke off
disk_after_failed_copy(files_on_disk, dest, source, outcome) ==
    IF outcome = "not_opened" THEN files_on_disk
    ELSE Put(files_on_disk, dest, [image |-> source, compress_level |-> "truncated"])

\* store_qr_file when _copy_and_optimize_file raises (disk full, permission)
store_qr_file_copy_fails(w, qr_id, citizen_id, document_type, source, created_at_arg, outcome) ==
    /\ writers[w].pc = "idle"
    /\ mig.pc = "idle"
    /\ LET created_at == IF created_at_arg = NoneObj THEN now ELSE created_at_arg.datetime
           storage_tier == determine_storage_tier(created_at, now, config)
           shard_id == generate_shard_id(created_at, storage_tier, config)
           dest_dir == <<"storage", storage_tier, strftime_Ymd(Date(created_at)), shard_id>>
           dest_file_path == <<dest_dir, qr_id, ".png">>
           storage_info ==
               [qr_id |-> qr_id, citizen_id |-> citizen_id,
                document_type |-> document_type, created_at |-> created_at,
                file_path |-> dest_file_path, file_size |-> 0,
                storage_type |-> storage_tier, shard_id |-> shard_id,
                checksum |-> None, backup_locations |-> <<>>]
           catalog == catalog_at_copy(<<qr_metadata, storage_shards>>, storage_info)
       IN  /\ disk' = disk_after_failed_copy(disk, dest_file_path, source, outcome)
           /\ qr_metadata' = catalog[1]
           /\ storage_shards' = catalog[2]
           /\ store_raised' = [raised |-> "OSError", qr_id |-> qr_id, file_path |-> dest_file_path]
    /\ UNCHANGED <<auxVars, coordVars, encVars, storage_statistics, config, txn_shards, db_lock,
                   writers, mig, retrieved, returned>>

\* a creation time a caller passes: now less a hours
CreatedAtHour(a) == [datetime |-> now - a]

\* StorageConfig with any number of shards per day up to one per hour
PlaceConfigs ==
    [hot_storage_days : 0..MaxHotDays,
     warm_storage_days : 1..MaxWarmDays,
     primary_datacenter : {"dc1"},
     backup_datacenters : {<<"dc2", "dc3">>},
     compression_level : {"MEDIUM"},
     shards_per_day : 1..TicksPerDay,
     shard_size_limit_gb : {1}]

\* time passes while the client is between two calls
tick_between_calls == Quiescent /\ tick

\* one client calling the manager, one call after the other
StoreStep ==
    \/ \E q \in QrIds, s \in SourceFiles, d \in 0..MaxAgeDays :
          store_qr_file("w1", q, "GOV00000001", "PASSPORT", s, CreatedAt(d))
    \/ calculate_checksum("w1")
    \/ save_metadata("w1")
    \/ insert_shard("w1")
    \/ update_shard("w1")
    \/ seal_shard("w1")
    \/ commit_shard("w1")
    \/ store_return("w1")
    \/ \E q \in QrIds : retrieve_qr_file(q)
    \/ migrate_old_files
    \/ \E q \in QrIds : migrate_old_files_loop(q)
    \/ migrate_old_files_end
    \/ tick_between_calls

\* one client storing, with copies that fail, and asking for the statistics
AdminStep ==
    \/ \E q \in QrIds, d \in {0, MaxAgeDays} :
          store_qr_file("w1", q, "GOV00000001", "PASSPORT", "A", CreatedAt(d))
    \/ calculate_checksum("w1")
    \/ save_metadata("w1")
    \/ insert_shard("w1")
    \/ update_shard("w1")
    \/ seal_shard("w1")
    \/ commit_shard("w1")
    \/ store_return("w1")
    \/ \E q \in QrIds, o \in {"not_opened", "truncated"} :
          store_qr_file_copy_fails("w1", q, "GOV00000001", "PASSPORT", "B", NoneObj, o)
    \/ get_storage_statistics
    \/ tick_between_calls

\* callers placing artifacts of any creation hour: store_qr_file up to the copy
PlaceStep ==
    \/ \E w \in Writers, q \in QrIds, a \in 0..(MaxAgeDays * TicksPerDay) :
          store_qr_file(w, q, "GOV00000001", "PASSPORT", "A", CreatedAtHour(a))
    \/ tick

\* several processes storing at the same time
WritersStep ==
    \/ \E w \in Writers, q \in QrIds, s \in SourceFiles, d \in {0, MaxAgeDays} :
          store_qr_file(w, q, "GOV00000001", "PASSPORT", s, CreatedAt(d))
    \/ \E w \in Writers : calculate_checksum(w)
    \/ \E w \in Writers : save_metadata(w)
    \/ \E w \in Writers : insert_shard(w)
    \/ \E w \in Writers : update_shard(w)
    \/ \E w \in Writers : seal_shard(w)
    \/ \E w \in Writers : commit_shard(w)
    \/ \E w \in Writers : store_return(w)

(***************************************************************************)
(* Part IV: functions and objects used on their own                        *)
(***************************************************************************)
\* the hours of a day: the literal 24 of _generate_shard_id
HoursPerDay == 24

\* _generate_shard_id for a creation time of this hour under this
\* shards_per_day: the bucket it computes, or the exception of the division
generate_shard_id_call(hour, shards_per_day) ==
    /\ shard_hour_call' =
          IF HoursPerDay \div shards_per_day = 0
          THEN [hour |-> hour, shards_per_day |-> shards_per_day,
                raised |-> "ZeroDivisionError"]
          ELSE [hour |-> hour, shards_per_day |-> shards_per_day, raised |-> None,
                shard_hour |-> shard_hour_of(hour, shards_per_day, HoursPerDay),
                suffix |-> Format02d(shard_hour_of(hour, shards_per_day, HoursPerDay))]
    /\ UNCHANGED <<coordVars, encVars, storVars, queueVars, cacheVars>>

\* ---- PP_Queue.py -----------------------------------------------------------
\* The Queue is taken to hold every path put into it: the paths of a run fit
\* into the buffer of its pipe, so no process waits for the parent to read.
\* a file name is the tuple of its parts between the dots
ImageNames == [k \in 1..MaxImages |-> <<[img |-> k], "png">>]

\* the paths os.listdir yields for the directory of the images
ImagePaths(count) == [k \in 1..count |-> <<"data/human2", ImageNames[k]>>]

\* os.path.basename
basename(path) == path[2]

RECURSIVE str_replace_dot(_, _)
\* nom.replace(".", new): new is put where the dots were
str_replace_dot(parts, new) ==
    IF Len(parts) <= 1 THEN parts
    ELSE <<Head(parts), new>> \o str_replace_dot(Tail(parts), new)

\* lines 19-20: the path of the converted image
chemin_image_noir_blanc(chemin_image) ==
    <<"img_convert", str_replace_dot(basename(chemin_image), "_noir_blanc.")>>

\* the list comprehension of line 35
lots_of(liste, taille_lot, n) ==
    LET starts == range(0, Len(liste), taille_lot)
    IN  [k \in 1..Len(starts) |-> Slice(liste, starts[k], starts[k] + taille_lot)]

\* entry of traiter_images_par_queue up to the list of lots (lines 30-35)
traiter_images_par_queue(liste, n) ==
    /\ pq_pc = "idle"
    /\ liste_chemins_images' = liste
    /\ num_processes' = n
    /\ LET taille_lot == Len(liste) \div n
       IN  IF taille_lot = 0
           THEN \* range() arg 3 must not be zero
                /\ pq_pc' = "ValueError"
                /\ lots' = <<>>
           ELSE /\ pq_pc' = "start"
                /\ lots' = lots_of(liste, taille_lot, n)
    /\ UNCHANGED <<coordVars, encVars, storVars, cacheVars, shard_hour_call, processes, joined, queue,
                   img_convert, chemins_images_traites>>

\* one turn of the loop of lines 38-41: Process(...).start()
process_start ==
    /\ pq_pc = "start"
    /\ IF Len(processes) < Len(lots)
       THEN /\ processes' = Append(processes, [state |-> "started", idx |-> 0])
            /\ pq_pc' = pq_pc
       ELSE /\ pq_pc' = "join"
            /\ UNCHANGED processes
    /\ UNCHANGED <<coordVars, encVars, storVars, cacheVars, shard_hour_call, liste_chemins_images,
                   num_processes, lots, joined, queue, img_convert, chemins_images_traites>>

\* one turn of the loop of convertir_en_noir_blanc in process k; after the last
\* turn the process exits
convertir_en_noir_blanc(k) ==
    /\ k \in DOMAIN processes
    /\ processes[k].state = "started"
    /\ LET chemin_image == lots[k][processes[k].idx + 1]
           dest == chemin_image_noir_blanc(chemin_image)
       IN  /\ img_convert' = img_convert \cup {dest}
           /\ queue' = Append(queue, dest)
           /\ processes' = [processes EXCEPT ![k] =
                  [state |-> IF processes[k].idx + 1 = Len(lots[k])
                             THEN "exited" ELSE "started",
                   idx |-> processes[k].idx + 1]]
    /\ UNCHANGED <<coordVars, encVars, storVars, cacheVars, shard_hour_call, pq_pc, liste_chemins_images,
                   num_processes, lots, joined, chemins_images_traites>>

\* one turn of the loop of lines 44-45: process.join() returns
process_join ==
    /\ pq_pc = "join"
    /\ IF joined < Len(processes)
       THEN /\ processes[joined + 1].state = "exited"
            /\ joined' = joined + 1
            /\ pq_pc' = pq_pc
       ELSE /\ pq_pc' = "drain"
            /\ UNCHANGED joined
    /\ UNCHANGED <<coordVars, encVars, storVars, cacheVars, shard_hour_call, liste_chemins_images,
                   num_processes, lots, processes, queue, img_convert, chemins_images_traites>>

\* one turn of the loop of lines 49-50, and the return
queue_get ==
    /\ pq_pc = "drain"
    /\ IF queue # <<>>
       THEN /\ chemins_images_traites' = Append(chemins_images_traites, Head(queue))
            /\ queue' = Tail(queue)
            /\ pq_pc' = pq_pc
       ELSE /\ pq_pc' = "returned"
            /\ UNCHANGED <<queue, chemins_images_traites>>
    /\ UNCHANGED <<coordVars, encVars, storVars, cacheVars, shard_hour_call, liste_chemins_images,
                   num_processes, lots, processes, joined, img_convert>>

QueueInit ==
    /\ pq_pc = "idle"
    /\ liste_chemins_images = <<>>
    /\ num_processes = 0
    /\ lots = <<>>
    /\ processes = <<>>
    /\ joined = 0
    /\ queue = <<>>
    /\ img_convert = {}
    /\ chemins_images_traites = <<>>

QueueStep ==
    \/ \E count \in 0..MaxImages, n \in 1..MaxProcesses :
          traiter_images_par_queue(ImagePaths(count), n)
    \/ process_start
    \/ \E k \in 1..MaxImages : convertir_en_noir_blanc(k)
    \/ process_join
    \/ queue_get

\* ---- CacheManager ----------------------------------------------------------
CacheKeys == {"k1", "k2"}
CacheValues == {"v1", "v2"}

\* dict with key removed
Del(d, key) == [x \in DOMAIN d \ {key} |-> d[x]]

\* an entry is still served at the very end of its life, a mutation of line 141
cache_fresh_at_ttl(t, set_at) == t - set_at <= CACHE_TTL

\* the test of line 141
cache_fresh(t, set_at) == t - set_at < CACHE_TTL

\* CacheManager.set
cache_set(key, value) ==
    /\ cache' = Put(cache, key, value)
    /\ ttl' = Put(ttl, key, time_time)
    /\ cache_sets' = Put(cache_sets, key, [value |-> value, at |-> time_time])
    /\ UNCHANGED <<coordVars, encVars, storVars, shard_hour_call, queueVars, time_time, cache_got>>

\* CacheManager.get
cache_get(key) ==
    /\ IF key \in DOMAIN cache
       THEN IF cache_fresh(time_time, IF key \in DOMAIN ttl THEN ttl[key] ELSE 0)
            THEN /\ cache_got' = [key |-> key, value |-> cache[key], at |-> time_time]
                 /\ UNCHANGED <<cache, ttl>>
            ELSE /\ cache' = Del(cache, key)
                 /\ ttl' = IF key \in DOMAIN ttl THEN Del(ttl, key) ELSE ttl
                 /\ cache_got' = [key |-> key, value |-> None, at |-> time_time]
       ELSE /\ cache_got' = [key |-> key, value |-> None, at |-> time_time]
            /\ UNCHANGED <<cache, ttl>>
    /\ UNCHANGED <<coordVars, encVars, storVars, shard_hour_call, queueVars, time_time, cache_sets>>

\* time passes between two calls
time_passes ==
    /\ time_time < MaxCacheTime
    /\ time_time' = time_time + 1
    /\ UNCHANGED <<coordVars, encVars, storVars, shard_hour_call, queueVars, cache, ttl,
                   cache_sets, cache_got>>

\* CacheManager(): both dicts empty
CacheInit ==
    /\ cache = <<>>
    /\ ttl = <<>>
    /\ time_time = 0
    /\ cache_sets = <<>>
    /\ cache_got = NoneObj

CacheStep ==
    \/ \E key \in CacheKeys, value \in CacheValues : cache_set(key, value)
    \/ \E key \in CacheKeys : cache_get(key)
    \/ time_passes

AuxInit ==
    /\ shard_hour_call = NoneObj
    /\ QueueInit
    /\ CacheInit

ShardHourStep ==
    \E hour \in 0..(HoursPerDay - 1), shards_per_day \in 1..HoursPerDay :
        generate_shard_id_call(hour, shards_per_day)

(***************************************************************************)
(* Specifications                                                          *)
(***************************************************************************)
Init == CoordInit /\ EncInit /\ StorInit /\ AuxInit

\* Part I: one generator object and its worker pool
Next == CoordStep

Spec == Init /\ [][Next]_vars

\* Part I under the scheduling of the operating system: the coordinator and
\* every worker process that is not blocked eventually take their next step.
\* Nothing makes a blocked worker (batch_hang) resume.
Fairness ==
    /\ WF_vars(\E n \in 0..MaxN, w \in 1..MaxWorkers : generate_qr_codes_parallel(n, w))
    /\ WF_vars(executor_submit)
    /\ WF_vars(\E b \in 1..MaxN : worker_start(b))
    /\ \A b \in 1..MaxN :
          WF_vars(\E o \in {"ok", "render_fail", "db_fail"} : process_qr_batch(b, o))
    /\ WF_vars(future_result \/ future_exception)
    /\ WF_vars(executor_shutdown)
    /\ WF_vars(\E t \in 0..MaxElapsed : calculate_final_stats(t))
    /\ WF_vars(get_performance_report)

FairSpec == Init /\ [][Next]_vars /\ Fairness

\* Part I: one generator instance used for several invocations
CallsInit == CallsCoordInit /\ EncInit /\ StorInit /\ AuxInit

CallsNext == CallsStep

SpecCalls == CallsInit /\ [][CallsNext]_vars

\* Part II: the encoders and the verification endpoint
EncInit1 == Init /\ BATCH_SIZE = 1

EncNext == EncStep

SpecEnc == EncInit1 /\ [][EncNext]_vars

\* Part II: the Celery batch tasks
TaskNext == TaskStep

SpecTasks == EncInit1 /\ [][TaskNext]_vars

\* Part III: a manager of any configuration and one client
StoreInit == CoordInit /\ BATCH_SIZE = 1 /\ EncInit /\ config \in Configs /\ EmptyStore /\ AuxInit

StoreNext == StoreStep

SpecStore == StoreInit /\ [][StoreNext]_vars

\* Part III: the placement of artifacts into tiers and shards
PlaceInit == CoordInit /\ BATCH_SIZE = 1 /\ EncInit /\ config \in PlaceConfigs /\ EmptyStore
             /\ AuxInit

PlaceNext == PlaceStep

SpecPlace == PlaceInit /\ [][PlaceNext]_vars

\* Part III: the default manager, failing copies and the statistics
AdminNext == AdminStep

SpecAdmin == EncInit1 /\ [][AdminNext]_vars

\* Part IV: _generate_shard_id over the hours of a day and every shards_per_day
ShardHourNext == ShardHourStep

SpecShardHour == EncInit1 /\ [][ShardHourNext]_vars

\* Part IV: one CacheManager and its callers
CacheNext == CacheStep

SpecCache == EncInit1 /\ [][CacheNext]_vars

\* Part IV: PP_Queue.py
QueueNext == QueueStep

SpecQueue == EncInit1 /\ [][QueueNext]_vars

\* Part III: the default manager and several writers
WritersNext == WritersStep

SpecWriters == EncInit1 /\ [][WritersNext]_vars

(***************************************************************************)
(* Claims about the coordinator (Part I)                                   *)
(***************************************************************************)
Ended == pc \in {"returned", "raised"}
Collected == pc \in {"stats", "report", "returned", "raised"}
\* batch k was collected through the except branch
CollectedAsFailed(k) == k \in DOMAIN batch_results /\ "batch_id" \notin DOMAIN batch_results[k]
CeilDiv(n, d) == (n + d - 1) \div d

\* C1: for every invocation on a list of N requests, whichever batches time out
\* or fail in their worker, the reported success count plus the reported error
\* count equals N.
C1_SuccessPlusErrorsIsN ==
    report.returned =>
        report.successful_generated + report.errors = Len(qr_data_list)

\* C2: a batch whose collection times out or whose worker failed is recorded
\* with success count 0 and error count equal to the number of artifacts of
\* that batch, and the coordinator collects every remaining batch.
C2_FailedBatchCountsItsArtifacts ==
    /\ \A k \in DOMAIN batch_results :
          CollectedAsFailed(k) =>
              /\ batch_results[k].success_count = 0
              /\ batch_results[k].error_count = Len(batches[k])
    /\ Collected => Len(batch_results) = Len(batches)

\* C3: a batch that never finishes delays the coordinator by no more than its
\* timeout: if every other batch finishes, the invocation eventually returns.
C3_StuckBatchDoesNotBlockReturn ==
    \A b \in 1..MaxN :
        <>[](/\ pc = "collect"
             /\ \A k \in DOMAIN futures : k # b => futures[k] \in {"done", "failed"})
        => <>Ended

\* C4: within a batch a failure on one artifact (validation, render, storage or
\* catalog write) adds one to the error count and processing goes on: every
\* artifact of the batch is attempted and success count plus error count equals
\* the size of the batch.
C4_EveryArtifactOfBatchAttempted ==
    \A k \in DOMAIN futures :
        futures[k] \in {"done", "failed"} =>
            /\ results[k].idx = Len(batches[k])
            /\ results[k].success_count + results[k].error_count = Len(batches[k])

\* C5: no exception leaves generate_qr_codes_parallel, for any input list, the
\* empty list included.
C5_NoExceptionLeavesCoordinator == pc # "raised"

\* C6: the N requests are split into exactly ceil(N/B) batches, pairwise
\* disjoint, in input order, together holding every request exactly once, each
\* of exactly B requests except possibly the last; every batch is submitted.
C6_BatchesPartitionRequests ==
    pc # "idle" =>
        /\ Len(batches) = CeilDiv(Len(qr_data_list), BATCH_SIZE)
        /\ Flatten(batches) = qr_data_list
        /\ \A k \in DOMAIN batches :
              /\ k < Len(batches) => Len(batches[k]) = BATCH_SIZE
              /\ Len(batches[k]) \in 1..BATCH_SIZE
        /\ \A j, k \in DOMAIN batches :
              j # k => SeqRange(batches[j]) \cap SeqRange(batches[k]) = {}
        /\ pc # "submit" => Len(futures) = Len(batches)

\* C6 witness: every batch of a list that B does not divide has been submitted
C6_Witness ==
    /\ pc = "collect"
    /\ Len(batches) >= 2
    /\ Len(batches[Len(batches)]) < BATCH_SIZE
    /\ Len(futures) = Len(batches)

(***************************************************************************)
(* Claims about the encoders (Part II)                                     *)
(***************************************************************************)
\* the sequence numbers of two tasks do not overlap
DisjointRanges(a, b) ==
    \/ a.start_sequence + a.batch_size <= b.start_sequence
    \/ b.start_sequence + b.batch_size <= a.start_sequence

\* C7: no two artifacts of one run receive the same id: the sequence ranges
\* handed to different batches are pairwise disjoint and the id is an injective
\* function of the sequence number.
C7_BatchesGetDisjointSequences ==
    /\ \A j, k \in DOMAIN tasks :
          j # k => /\ DisjointRanges(tasks[j], tasks[k])
                   /\ tasks[j].qr_ids \cap tasks[k].qr_ids = {}
    /\ \A s1, s2 \in 1..MaxSeq :
          format_qr_id(s1, now) = format_qr_id(s2, now) => s1 = s2

SameBusinessFields(a, b) ==
    /\ a.citizen_id = b.citizen_id
    /\ a.document_type = b.document_type
    /\ a.expiry_date = b.expiry_date

SameArguments(e, f) ==
    /\ e.order = f.order
    /\ e.certification = f.certification
    /\ e.sequence = f.sequence

\* C8 as claimed: encoding the same business fields with the same sequence
\* number twice yields the same security hash, whenever it is done.
C8_SameFieldsSameHash ==
    /\ \A a, b \in codes :
          SameBusinessFields(a, b) => a.security_hash = b.security_hash
    /\ \A e, f \in emitted :
          SameArguments(e, f) => e.out.security_hash = f.out.security_hash

\* C8 amended: encoding the same business fields with the same sequence number
\* and the same creation time (the created_at stamp of a QRCodeData, the day
\* in the id of a service payload) yields the same security hash, however
\* often it is done and whatever random id the object gets.
C8_SameFieldsSameCreationTimeSameHash ==
    /\ \A a, b \in codes :
          (SameBusinessFields(a, b) /\ a.created_at = b.created_at)
              => a.security_hash = b.security_hash
    /\ \A e, f \in emitted :
          (SameArguments(e, f) /\ Date(e.at) = Date(f.at))
              => e.out.security_hash = f.out.security_hash

\* C8 witness: two objects built from the same fields at the same clock reading
C8_Witness ==
    \E a, b \in codes :
        /\ a.id # b.id
        /\ SameBusinessFields(a, b)
        /\ a.created_at = b.created_at
        /\ a.security_hash = b.security_hash

\* the payload keys, the hash apart, on which two payloads differ
DiffKeys(p, q) == {key \in (Keys(p) \cup Keys(q)) \ {"hash"} : Lookup(p, key) # Lookup(q, key)}

\* C9: changing any single field of a payload, its id included, while keeping
\* the others changes the security hash.
C9_AnySingleFieldChangesHash ==
    /\ \A a, b \in codes :
          LET p == json_loads(to_qr_data(a))
              q == json_loads(to_qr_data(b))
          IN  Cardinality(DiffKeys(p, q)) = 1 => Lookup(p, "hash") # Lookup(q, "hash")
    /\ \A e, f \in emitted :
          LET p == json_loads(e.out.qr_data)
              q == json_loads(f.out.qr_data)
          IN  Cardinality(DiffKeys(p, q)) = 1 => Lookup(p, "hash") # Lookup(q, "hash")

\* C10: every payload emitted by the encoder is self-verifying: the hash the
\* verification procedure recomputes is the embedded one, so an untampered
\* payload is never rejected as counterfeit.
C10_EmittedPayloadPassesHashCheck ==
    last_verification.qr_data \in {e.out.qr_data : e \in emitted}
        => last_verification.response # "security_hash_invalid"

\* C11: the encoder rejects a request whose subject identifier is empty before
\* it produces an id, a payload or a hash: no object with an empty citizen id
\* is ever constructed.
C11_EmptySubjectIsRejected ==
    \A c \in codes : c.citizen_id # ""

(***************************************************************************)
(* Claims about the tiered store (Part III)                                *)
(***************************************************************************)
\* the tier the windows give: hot up to hotWindow, warm up to hotWindow + warmWindow
TierOfWindows(age_days, cfg) ==
    IF age_days <= cfg.hot_storage_days THEN "hot"
    ELSE IF age_days <= cfg.hot_storage_days + cfg.warm_storage_days THEN "warm"
    ELSE "cold"

\* C12: for every age in days and every configuration the tier a store selects
\* is hot iff age <= hotWindow, warm iff hotWindow < age <= hotWindow +
\* warmWindow, and cold otherwise.
C12_TierFollowsWindows ==
    \A w \in Writers :
        writers[w].pc # "idle" =>
            writers[w].storage_info.storage_type = TierOfWindows(writers[w].age_days, config)

\* C13: once a shard is sealed no store adds an artifact to it: its artifact
\* count and its cumulative size never increase again.
C13_SealedShardTakesNoArtifact ==
    [][\A s \in DOMAIN storage_shards :
          storage_shards[s].is_sealed =>
              /\ storage_shards'[s].file_count = storage_shards[s].file_count
              /\ storage_shards'[s].current_size_bytes = storage_shards[s].current_size_bytes]_vars

\* C14: over any sequence of stores, reads and migrations the sealed flag of a
\* shard changes at most once, from false to true: a sealed shard stays sealed.
C14_SealedNeverReverts ==
    [][\A s \in DOMAIN storage_shards :
          storage_shards[s].is_sealed =>
              s \in DOMAIN storage_shards' /\ storage_shards'[s].is_sealed]_vars

\* a store into a shard that an earlier store had sealed has returned
C14_Witness ==
    /\ Quiescent
    /\ Len(returned) = 2
    /\ returned[1].shard_id = returned[2].shard_id
    /\ returned[1].file_size > shard_size_limit_bytes(config)
    /\ storage_shards[returned[2].shard_id].is_sealed

\* C15: after every store a shard is unsealed as long as its cumulative size
\* has not exceeded the shard size limit, and sealed from the write on that
\* takes the size over the limit.
C15_SealedIffOverLimit ==
    \A s \in DOMAIN storage_shards :
        storage_shards[s].is_sealed <=>
            storage_shards[s].current_size_bytes > shard_size_limit_bytes(config)

\* the first write left the shard unsealed at its limit, the second sealed it
C15_Witness ==
    /\ Quiescent
    /\ Len(returned) = 2
    /\ returned[1].shard_id = returned[2].shard_id
    /\ returned[1].file_size = shard_size_limit_bytes(config)
    /\ storage_shards[returned[2].shard_id].is_sealed

RECURSIVE SumSizes(_)
SumSizes(infos) ==
    IF infos = {} THEN 0
    ELSE LET x == CHOOSE y \in infos : TRUE
         IN  x.size + SumSizes(infos \ {x})

\* the committed writes into shard s, each with its file size
WritesInto(s) ==
    {[call |-> <<"returned", i>>, size |-> returned[i].file_size] :
        i \in {j \in DOMAIN returned : returned[j].shard_id = s}}
    \cup
    {[call |-> <<"writer", w>>, size |-> writers[w].storage_info.file_size] :
        w \in {v \in Writers : /\ writers[v].pc = "schedule_backup"
                               /\ writers[v].storage_info.shard_id = s}}

\* C16: with writers storing concurrently, under every interleaving the size of
\* a shard is the sum of the file sizes written into it, its count the number
\* of those writes, and it is sealed iff that size exceeds the limit; a shard
\* nobody wrote into has no row.
C16_ConcurrentWritersKeepShardExact ==
    \A s \in DOMAIN storage_shards \cup {returned[i].shard_id : i \in DOMAIN returned} :
        /\ s \in DOMAIN storage_shards
        /\ storage_shards[s].current_size_bytes = SumSizes(WritesInto(s))
        /\ storage_shards[s].file_count = Cardinality(WritesInto(s))
        /\ storage_shards[s].is_sealed <=>
              SumSizes(WritesInto(s)) > shard_size_limit_bytes(config)

\* two writers were in store_qr_file for the same shard at the same time, and
\* both have returned
C16_Witness ==
    /\ \A w \in Writers : writers[w].pc = "idle"
    /\ Len(returned) = 2
    /\ returned[1].shard_id = returned[2].shard_id
    /\ returned[1].qr_id # returned[2].qr_id
    /\ storage_shards[returned[1].shard_id].file_count = 2
    /\ Cardinality(DOMAIN storage_shards) = 1

\* no writer is storing artifact q
Stored(q) ==
    /\ q \in DOMAIN qr_metadata
    /\ \A w \in Writers : writers[w].pc # "idle" => writers[w].storage_info.qr_id # q

\* C17: after a store returns, the catalog record of a hot or warm artifact
\* lists one pending backup location per configured backup site, and the
\* record of a cold artifact lists none.
C17_CatalogListsBackupLocations ==
    \A q \in QrIds :
        Stored(q) =>
            Len(qr_metadata[q].backup_locations.json_array) =
                IF qr_metadata[q].storage_type \in {"hot", "warm"}
                THEN Len(config.backup_datacenters) ELSE 0

\* C18: an artifact stored with store_qr_file and read back by id with
\* retrieve_qr_file gives a record, and the checksum of the record is the hash
\* of the bytes at the record's file path.
C18_ReadBackChecksumMatchesBytes ==
    [][\A q \in QrIds :
          (retrieve_qr_file(q) /\ \E i \in DOMAIN returned : returned[i].qr_id = q) =>
              /\ retrieved' # NoneObj
              /\ retrieved'.qr_id = q
              /\ retrieved'.file_path \in DOMAIN disk'
              /\ retrieved'.checksum = md5_hexdigest(disk'[retrieved'.file_path])]_vars

\* an artifact stored twice under one path, with different bytes, was read back
C18_Witness ==
    /\ Len(returned) = 2
    /\ returned[1].file_path = returned[2].file_path
    /\ returned[1].checksum # returned[2].checksum
    /\ retrieved # NoneObj
    /\ retrieved.checksum = returned[2].checksum

\* C19: a read of a known id returns its record, adds one to its access count
\* and sets its last-accessed time, and changes no other record; a read of an
\* unknown id returns nothing and leaves the catalog as it is.
C19_ReadTouchesOnlyItsRecord ==
    [][\A q \in QrIds :
          retrieve_qr_file(q) =>
              IF q \in DOMAIN qr_metadata
              THEN /\ retrieved' = qr_metadata[q]
                   /\ qr_metadata' = [qr_metadata EXCEPT
                         ![q].access_count = qr_metadata[q].access_count + 1,
                         ![q].last_accessed = now]
                   /\ storage_shards' = storage_shards
              ELSE /\ retrieved' = NoneObj
                   /\ qr_metadata' = qr_metadata
                   /\ storage_shards' = storage_shards]_vars

\* one of two stored artifacts was read once
C19_Witness ==
    /\ Cardinality(DOMAIN qr_metadata) = 2
    /\ retrieved # NoneObj
    /\ qr_metadata[retrieved.qr_id].access_count = 1
    /\ qr_metadata[retrieved.qr_id].last_accessed = now
    /\ \E q \in DOMAIN qr_metadata : qr_metadata[q].access_count = 0

\* C20: after one pass of the migrator every artifact whose stored tier
\* differed from the tier derived from its age has the derived tier in its
\* record.
C20_MigratorPassMovesArtifacts ==
    [][(mig.pc = "loop" /\ mig'.pc = "idle") =>
          \A m \in mig'.called : qr_metadata'[m.qr_id].storage_type = m.new_tier]_vars

BatchOf(q) == CHOOSE k \in DOMAIN batches : q \in SeqRange(batches[k])

\* C22: an artifact is counted as a success only if its catalog record was
\* persisted: the successes a report counts all have a row in the catalog, and
\* an artifact with bytes on disk and no row lies in a batch booked as failed.
C22_SuccessOnlyWithCatalogRecord ==
    Collected =>
        /\ \A k \in DOMAIN batch_results :
              batch_results[k].success_count <=
                  Cardinality(SeqRange(batches[k]) \cap qr_codes)
        /\ \A q \in files \ qr_codes :
              /\ CollectedAsFailed(BatchOf(q))
              /\ batch_results[BatchOf(q)].success_count = 0
              /\ batch_results[BatchOf(q)].error_count >= 1

\* a report was returned after the catalog write of an artifact on disk failed
C22_Witness ==
    /\ report.returned
    /\ files \ qr_codes # {}
    /\ report.successful_generated >= 1

RECURSIVE SumFileCounts(_, _)
\* the sum of file_count over the rows ids of a table of shards
SumFileCounts(table, ids) ==
    IF ids = {} THEN 0
    ELSE LET x == CHOOSE y \in ids : TRUE
         IN  table[x].file_count + SumFileCounts(table, ids \ {x})

\* C23: generating four full batches of artifacts with no failure yields
\* exactly 4 batches, a success count of all artifacts and an error count of 0,
\* a catalog holding one id per artifact, and shards of the current day whose
\* artifact counts sum to the number of artifacts (1000 artifacts in batches
\* of 250 in the claim).
C23_FourBatchesFillCatalogAndShards ==
    (/\ report.returned
     /\ Len(qr_data_list) = 4 * BATCH_SIZE
     /\ \A k \in DOMAIN batches :
           ~CollectedAsFailed(k) /\ batch_results[k].error_count = 0)
    =>
        /\ Len(batches) = 4
        /\ report.successful_generated = Len(qr_data_list)
        /\ report.errors = 0
        /\ Cardinality(qr_codes) = Len(qr_data_list)
        /\ SumFileCounts(storage_shards, DOMAIN storage_shards) = Len(qr_data_list)

\* the same run, the shards left aside: what the coordinator itself yields
CoordinatorFillsItsCatalog ==
    (/\ report.returned
     /\ Len(qr_data_list) = 4 * BATCH_SIZE
     /\ \A k \in DOMAIN batches :
           ~CollectedAsFailed(k) /\ batch_results[k].error_count = 0)
    =>
        /\ Len(batches) = 4
        /\ report.successful_generated = Len(qr_data_list)
        /\ report.errors = 0
        /\ Cardinality(qr_codes) = Len(qr_data_list)

\* the artifacts being placed: the locals of the writers inside store_qr_file
Placed == {writers[w].storage_info : w \in {v \in Writers : writers[v].pc # "idle"}}

\* bucketIndex = hour div (hours of a day div bucketsPerDay)
BucketIndex(created_at, cfg) == Hour(created_at) \div (TicksPerDay \div cfg.shards_per_day)

\* C24: for every tier, creation date and hour and every bucketsPerDay that
\* divides the hours of a day, the shard id is <tier>_<YYYYMMDD>_<bucketIndex>
\* with bucketIndex = hour div (hours div bucketsPerDay), and two artifacts get
\* the same shard id iff they have the same tier, the same day and hours in
\* the same bucket.
C24_ShardIdIsTierDayBucket ==
    TicksPerDay % config.shards_per_day = 0 =>
        /\ \A x \in Placed :
              /\ x.shard_id[1] = x.storage_type
              /\ x.shard_id[3] = strftime_Ymd(Date(x.created_at))
              /\ x.shard_id[5] = Format02d(BucketIndex(x.created_at, config))
              /\ BucketIndex(x.created_at, config) \in 0..(config.shards_per_day - 1)
        /\ \A x, y \in Placed :
              x.shard_id = y.shard_id <=>
                  /\ x.storage_type = y.storage_type
                  /\ Date(x.created_at) = Date(y.created_at)
                  /\ BucketIndex(x.created_at, config) = BucketIndex(y.created_at, config)

\* two artifacts of one tier and one day, of different hours, share a shard
C24_Witness ==
    \E x, y \in Placed :
        /\ x.shard_id = y.shard_id
        /\ Hour(x.created_at) # Hour(y.created_at)
        /\ TicksPerDay % config.shards_per_day = 0

\* the report of get_storage_statistics agrees with the catalog it was read from
ReportMatchesCatalog(rep, metadata, shards) ==
    /\ rep.raised = None
    /\ rep.global.total_files = Cardinality(DOMAIN metadata)
    /\ rep.global.total_size_gb = round2(SumFileSizes(metadata, DOMAIN metadata), BytesPerGiB)
    /\ SumFileCounts(rep.by_storage_type, DOMAIN rep.by_storage_type) = rep.global.total_files
    /\ Len(rep.recent_shards) <= RecentShardsLimit
    /\ \A i \in DOMAIN rep.recent_shards : \A x \in DOMAIN shards :
          shards[x].created_at > shards[rep.recent_shards[i].shard_id].created_at
              => \E j \in DOMAIN rep.recent_shards : rep.recent_shards[j].shard_id = x

\* C25: for every catalog state, the empty catalog included, the statistics
\* operation returns a report whose total of artifacts is the number of records,
\* whose total size is the sum of their sizes, whose per-tier counts sum to the
\* total, and which lists at most the 20 most recently created shards.
C25_StatisticsForEveryCatalog ==
    [][get_storage_statistics =>
         ReportMatchesCatalog(storage_statistics', qr_metadata, storage_shards)]_vars

\* on a catalog with at least one record the report is returned and agrees
StatisticsForNonEmptyCatalog ==
    [][(get_storage_statistics /\ qr_metadata # <<>>) =>
         ReportMatchesCatalog(storage_statistics', qr_metadata, storage_shards)]_vars

\* C26: once an artifact record exists, its access count and last-accessed time
\* are changed only by reads and its tier, shard and path only by the migrator;
\* no other operation, storing the same id again included, changes them.
C26_RecordFieldsHaveOneWriter ==
    [][\A q \in DOMAIN qr_metadata :
         /\ q \in DOMAIN qr_metadata'
         /\ (\/ qr_metadata'[q].access_count # qr_metadata[q].access_count
             \/ qr_metadata'[q].last_accessed # qr_metadata[q].last_accessed)
                => retrieve_qr_file(q)
         /\ (\/ qr_metadata'[q].storage_type # qr_metadata[q].storage_type
             \/ qr_metadata'[q].shard_id # qr_metadata[q].shard_id
             \/ qr_metadata'[q].file_path # qr_metadata[q].file_path)
                => migrate_old_files_loop(q)]_vars

\* a store of an id never stored before changes no existing record
FirstStoreKeepsOtherRecords ==
    [][\A w \in Writers :
         (save_metadata(w) /\ writers[w].storage_info.qr_id \notin DOMAIN qr_metadata)
            => \A q \in DOMAIN qr_metadata : qr_metadata'[q] = qr_metadata[q]]_vars

\* C27: the tier chosen at write time and the tier the migrator derives for the
\* same creation time, clock and configuration are identical, so a migrator
\* pass run at the instant of a write finds nothing to move for that artifact.
C27_MigratorAgreesWithWriter ==
    [][\A q \in QrIds :
         (/\ migrate_old_files_loop(q)
          /\ qr_metadata[q].storage_type =
                determine_storage_tier(qr_metadata[q].created_at, now, config))
            => mig'.called = mig.called]_vars

\* a pass has ended with nothing to move, over an artifact written at this instant
C27_Witness ==
    /\ mig.pc = "loop"
    /\ mig.files_to_migrate = {}
    /\ mig.called = {}
    /\ \E q \in DOMAIN qr_metadata :
          /\ qr_metadata[q].storage_type # "cold"
          /\ qr_metadata[q].created_at # now
          /\ qr_metadata[q].shard_id \in DOMAIN storage_shards
          /\ storage_shards[qr_metadata[q].shard_id].created_at = now
          /\ storage_shards[qr_metadata[q].shard_id].file_count = 1

\* C28: a shard row does not exist before the first artifact is written to its
\* (tier, bucket); the first write creates it unsealed with size 0 and count 0
\* and then, like every later write, increases its count by exactly one and its
\* size by exactly the stored file size, leaving every other shard row unchanged.
C28_ShardRowCountsEveryWrite ==
    [][/\ \A s \in DOMAIN storage_shards : storage_shards[s].file_count >= 1
       /\ storage_shards' # storage_shards => \E w \in Writers : commit_shard(w)
       /\ \A w \in Writers :
            LET s == writers[w].storage_info.shard_id
                file_size == writers[w].storage_info.file_size
            IN  /\ (insert_shard(w) /\ s \notin DOMAIN storage_shards) =>
                      /\ txn_shards'[s].is_sealed = FALSE
                      /\ txn_shards'[s].current_size_bytes = 0
                      /\ txn_shards'[s].file_count = 0
                /\ commit_shard(w) =>
                      /\ DOMAIN storage_shards' = DOMAIN storage_shards \cup {s}
                      /\ \A x \in DOMAIN storage_shards \ {s} :
                            storage_shards'[x] = storage_shards[x]
                      /\ storage_shards'[s].file_count =
                            (IF s \in DOMAIN storage_shards
                             THEN storage_shards[s].file_count ELSE 0) + 1
                      /\ storage_shards'[s].current_size_bytes =
                            (IF s \in DOMAIN storage_shards
                             THEN storage_shards[s].current_size_bytes ELSE 0) + file_size]_vars

\* both stores of the run have returned and their writes reached the same shard
C28_Witness ==
    /\ \E s \in DOMAIN storage_shards : storage_shards[s].file_count = 2
    /\ Cardinality(DOMAIN storage_shards) = 1
    /\ Len(returned) = 2

\* C29: if persisting an artifact's bytes to its destination fails, the store
\* ends in an error reported to the caller, and neither an artifact record nor
\* any shard size, count or seal change has been made.
C29_FailedCopyLeavesCatalog ==
    [][\A q \in QrIds, o \in {"not_opened", "truncated"} :
         store_qr_file_copy_fails("w1", q, "GOV00000001", "PASSPORT", "B", NoneObj, o)
            => /\ store_raised' # NoneObj
               /\ store_raised'.raised = "OSError"
               /\ returned' = returned
               /\ qr_metadata' = qr_metadata
               /\ storage_shards' = storage_shards
               /\ txn_shards' = txn_shards]_vars

\* a copy has failed for an id the catalog does not hold, beside a stored artifact
C29_Witness ==
    /\ store_raised # NoneObj
    /\ store_raised.qr_id \notin DOMAIN qr_metadata
    /\ store_raised.file_path \in DOMAIN disk
    /\ qr_metadata # <<>>
    /\ storage_shards # <<>>

\* batch b has been handed to a worker process
Started(b) == b \in DOMAIN futures /\ futures[b] # "pending"

\* C30: at any moment at most W batches are being processed, W the worker count
\* given to the coordinator; the other submitted batches wait for a free worker,
\* and every submitted batch is eventually started.
C30_PoolOfWStartsEveryBatch ==
    /\ [](Cardinality(Running) <= num_workers)
    /\ \A b \in 1..MaxN : (b \in Pending) ~> Started(b)

\* never more than W batches are being processed
AtMostWBatchesRunning == Cardinality(Running) <= num_workers

\* a batch that waits is started unless a worker has blocked for ever
EveryBatchStartedUnlessWorkerBlocked ==
    \A b \in 1..MaxN : (b \in Pending) ~> (Started(b) \/ hung # {})

\* C31: within one batch the artifacts are processed one at a time in the order
\* they were submitted: the processing of artifact k+1 starts only after the
\* processing of artifact k has ended in success or failure.
C31_BatchItemsInSubmittedOrder ==
    [][\A b \in DOMAIN batches : \A k \in DOMAIN batches[b] :
         batches[b][k] \in files' \ files
            => /\ b \in Running
               /\ results[b].success_count + results[b].error_count = k - 1
               /\ \A j \in DOMAIN batches[b] :
                     batches[b][j] \in files' \ files => j = k]_vars

\* a batch of several artifacts has ended after a failure and, later, a success
C31_Witness ==
    \E b \in DOMAIN futures :
        /\ Len(batches[b]) >= 3
        /\ futures[b] = "done"
        /\ results[b].error_count >= 1
        /\ batches[b][Len(batches[b])] \in files
        /\ batches[b][1] \notin files

\* the catalog records that carry shard id s
RecordsOfShard(s) == {q \in DOMAIN qr_metadata : qr_metadata[q].shard_id = s}

\* every shard row agrees with the catalog records of its shard
ShardsAgreeWithCatalog ==
    \A s \in DOMAIN storage_shards :
        /\ storage_shards[s].file_count = Cardinality(RecordsOfShard(s))
        /\ storage_shards[s].current_size_bytes = SumFileSizes(qr_metadata, RecordsOfShard(s))

\* C32: after any sequence of store operations, storing the same artifact id
\* more than once included, every shard's artifact count equals the number of
\* catalog records that carry that shard id and its cumulative size equals the
\* sum of those records' file sizes.
C32_ShardAggregatesMatchCatalog == Quiescent => ShardsAgreeWithCatalog

\* the aggregates agree as long as no id has been stored twice
ShardsAgreeWhileIdsAreNew ==
    (Quiescent /\ Len(returned) = Cardinality(DOMAIN qr_metadata)) => ShardsAgreeWithCatalog

\* C33: when a coordinator invocation returns, its reported success count equals
\* the number of artifact records the invocation persisted in the catalog: an
\* artifact a worker already persisted is never reported as an error, also when
\* its batch later times out or fails.
C33_ReportedSuccessesArePersisted ==
    (report.returned /\ calls_left = 0 /\ pc = "returned") =>
        report.successful_generated = Cardinality(qr_codes)

\* when every batch was collected through future.result the two numbers agree
ReportedSuccessesWhenNoBatchFailed ==
    (report.returned /\ pc = "returned"
        /\ \A k \in DOMAIN batch_results : ~CollectedAsFailed(k)) =>
        report.successful_generated = Cardinality(qr_codes)

\* the report holds the totals of the batches collected by the invocation that
\* returned it
ReportOfThisInvocation ==
    /\ report.successful_generated = SumSeq(batch_results, "success_count")
    /\ report.errors = SumSeq(batch_results, "error_count")
    /\ report.total_size = SumSeq(batch_results, "total_size")
    /\ report.batches_processed =
          Cardinality({k \in DOMAIN batch_results : ~CollectedAsFailed(k)})

\* C34: the report returned by a coordinator invocation counts only that
\* invocation's artifacts: a second call of generate_qr_codes_parallel on the
\* same generator instance yields success, error, size and batch totals that do
\* not include the first invocation's.
C34_ReportCountsOneInvocation ==
    (report.returned /\ pc = "returned") => ReportOfThisInvocation

\* the report of the first invocation on a new instance holds its own totals
FirstReportCountsOneInvocation ==
    (report.returned /\ pc = "returned" /\ calls_left = MaxCalls - 1)
        => ReportOfThisInvocation

\* the bucket of the last call lies in 0..shards_per_day - 1
BucketInRange ==
    /\ shard_hour_call.raised = None
    /\ shard_hour_call.shard_hour \in 0..(shard_hour_call.shards_per_day - 1)

\* C35: for every bucketsPerDay from 1 to 24, not only the divisors of 24, and
\* every hour 0..23, the shard id generation succeeds and the bucket index lies
\* in 0..bucketsPerDay-1, so a day never has more than bucketsPerDay shards per
\* tier.
C35_BucketIndexBelowBucketsPerDay ==
    shard_hour_call # NoneObj => BucketInRange

\* for the divisors of 24 the bucket index is in range
BucketInRangeForDivisors ==
    (shard_hour_call # NoneObj /\ HoursPerDay % shard_hour_call.shards_per_day = 0)
        => BucketInRange

\* every image of the list is in exactly one lot, at one place
EveryImageInOneLot ==
    \A i \in DOMAIN liste_chemins_images :
        Cardinality({kj \in (DOMAIN lots) \X (1..MaxImages) :
                        /\ kj[2] \in DOMAIN lots[kj[1]]
                        /\ lots[kj[1]][kj[2]] = liste_chemins_images[i]}) = 1

\* the returned list holds the output path of every image exactly once
EveryOutputPathOnce ==
    /\ Len(chemins_images_traites) = Len(liste_chemins_images)
    /\ \A i \in DOMAIN liste_chemins_images :
          Cardinality({j \in DOMAIN chemins_images_traites :
                          chemins_images_traites[j] =
                              chemin_image_noir_blanc(liste_chemins_images[i])}) = 1

\* C36: for a list of at least num_processes images, traiter_images_par_queue
\* starts exactly num_processes worker processes and assigns each image to
\* exactly one of them, and the returned list holds each processed image's
\* output path exactly once.
C36_OneProcessPerRequestedProcess ==
    (pq_pc = "returned" /\ Len(liste_chemins_images) >= num_processes) =>
        /\ Len(processes) = num_processes
        /\ EveryImageInOneLot
        /\ EveryOutputPathOnce

\* each image goes to one process and its output path is returned once
ImagesAssignedAndReturnedOnce ==
    pq_pc = "returned" => (EveryImageInOneLot /\ EveryOutputPathOnce)

\* num_processes processes are started when it divides the number of images
ProcessCountWhenDivisible ==
    (pq_pc = "returned" /\ Len(liste_chemins_images) % num_processes = 0)
        => Len(processes) = num_processes

\* the last set of key k happened less than CACHE_TTL ago
SetLessThanTtlAgo(k) ==
    k \in DOMAIN cache_sets /\ time_time - cache_sets[k].at < CACHE_TTL

\* C37: after any sequence of set and get operations the value map and the
\* timestamp map have the same key set; a get returns the most recently set
\* value iff less than CACHE_TTL has elapsed since that set, and otherwise
\* returns nothing and removes the key from both maps.
C37_CacheServesFreshValuesOnly ==
    /\ [](DOMAIN cache = DOMAIN ttl)
    /\ [][\A k \in CacheKeys :
            cache_get(k) =>
                IF SetLessThanTtlAgo(k)
                THEN /\ cache_got'.value = cache_sets[k].value
                     /\ cache' = cache
                     /\ ttl' = ttl
                ELSE /\ cache_got'.value = None
                     /\ k \notin DOMAIN cache'
                     /\ k \notin DOMAIN ttl']_vars

\* a get has just removed an entry that reached CACHE_TTL, beside a live entry
C37_Witness ==
    /\ cache_got # NoneObj
    /\ cache_got.value = None
    /\ cache_got.key \in DOMAIN cache_sets
    /\ cache_got.at - cache_sets[cache_got.key].at = CACHE_TTL
    /\ cache_got.at = time_time
    /\ cache_got.key \notin DOMAIN cache
    /\ cache # <<>>

==============================================================================
